---- MODULE Spec2Model ----
(***************************************************************************)
(* A model of the accounting core of marinade-sdk:                         *)
(*   libs/marinade-sdk/src/state/marinade.rs  (struct Marinade, its        *)
(*       getters, guards and the four counter mutators)                    *)
(*   libs/marinade-sdk/src/checks.rs          (the guard library)          *)
(*                                                                         *)
(* The ledger record is the variable `marinade`.  Every public method is   *)
(* an operator over a ledger value (named as in the source) and an action  *)
(* that applies it to the current ledger with inputs drawn from small      *)
(* sets; `ret` records the last call: which method, its argument and what  *)
(* it returned.  A Rust panic (`expect` on a None) is the result tag       *)
(* "Panic"; the assignment it interrupts does not happen.                  *)
(*                                                                         *)
(* u64 is scaled down: U64_MAX stands for 2^64 - 1.  i128 is wide enough   *)
(* for every sum of three u64 values, so i128 arithmetic is plain integer  *)
(* arithmetic.                                                             *)
(***************************************************************************)
EXTENDS Integers, Sequences, FiniteSets, TLC

VARIABLES marinade, ret

vars == <<marinade, ret>>

\* ------------------------------------------------------------------ bounds

\* The largest u64 value of the model (u64::MAX scaled down).
U64_MAX == 255

\* ---------------------------------------------------------- input domains

\* Amounts handed to the mutators and guards.
Amounts == {0, 100, U64_MAX}

\* Real reserve balances handed to stake_delta.
ReserveBalances == {0, 10, 40, U64_MAX}

\* Addresses.
Pubkeys == {"msol_mint", "other_mint"}

\* Values the fields no method of the SDK writes may hold when the record
\* is loaded.
RentValues      == {10}
ActiveValues    == {0, 200}
DelayedValues   == {0, 100}
EmergencyValues == {0, 30, U64_MAX}
TicketValues    == {50, 200}
CapValues       == {150, U64_MAX}

\* Accounts handed to check_treasury_msol_account: their address, the
\* program that owns them, and what spl_token's Account::unpack makes of
\* their data (None when it does not parse, else the token account).
AccountKeys == {"treasury_msol_account", "other_account"}
AccountOwners == {"spl_token", "system_program"}
AccountData == {<<>>} \cup { <<[mint |-> mint]>> : mint \in Pubkeys }
AccountInfos ==
    { [key |-> key, owner |-> owner, data |-> data] :
        key \in AccountKeys, owner \in AccountOwners, data \in AccountData }

\* External token-mint snapshots (spl_token::state::Mint): the mint
\* authority and freeze authority are options, the supply a u64.  One sound
\* mint and one mint per way of differing from it.
Authorities == {"authority_a", "authority_b"}
SoundMint ==
    [mint_authority |-> <<"authority_a">>, freeze_authority |-> <<>>,
     supply |-> 0]
Mints ==
    { SoundMint,
      [SoundMint EXCEPT !.mint_authority = <<>>],
      [SoundMint EXCEPT !.mint_authority = <<"authority_b">>],
      [SoundMint EXCEPT !.freeze_authority = <<"authority_a">>],
      [SoundMint EXCEPT !.supply = 1] }

\* Validator vote accounts, delegated amounts and the delegation an external
\* stake account shows (StakeState::delegation(): None unless delegated).
Validators == {"validator_v", "validator_w"}
StakeAmounts == {99, 100}
StakeStates ==
    {<<>>} \cup { <<[voter_pubkey |-> v, stake |-> s]>> :
                     v \in Validators, s \in StakeAmounts }

\* ------------------------------------------------------- Rust std helpers

Some(v) == <<v>>
None == <<>>
is_some(o) == Len(o) = 1
unwrap(o) == o[1]

Min(a, b) == IF a <= b THEN a ELSE b
Max(a, b) == IF a >= b THEN a ELSE b

\* u64::checked_add: None on overflow.
checked_add(a, b) == IF a + b <= U64_MAX THEN Some(a + b) ELSE None

\* u64::checked_sub: None on underflow.
checked_sub(a, b) == IF a >= b THEN Some(a - b) ELSE None

\* u64::saturating_sub: floors at zero.
saturating_sub(a, b) == IF a >= b THEN a - b ELSE 0

\* u64::wrapping_add / wrapping_sub, as an unchecked build would compute.
wrapping_add(a, b) == (a + b) % (U64_MAX + 1)
wrapping_sub(a, b) == (a - b + (U64_MAX + 1)) % (U64_MAX + 1)

\* ---------------------------------------------------------------- results

\* What a call returns: Ok(v), a typed error, or a panic.
Ok(v) == [tag |-> "Ok", val |-> v]
Err(e) == [tag |-> e, val |-> 0]
Custom(code) == [tag |-> "Custom", val |-> code]
Panic == [tag |-> "Panic", val |-> 0]

\* A mutator's outcome: the ledger after the call and what it returned.
Outcome(self, res) == [self |-> self, res |-> res]

\* ------------------------------------------------------------- checks.rs

check_address(actual_address, reference_address) ==
    IF actual_address = reference_address
    THEN Ok(0)
    ELSE Err("InvalidArgument")

\* COption::contains: Some(x) with x equal to the value given.
contains(o, v) == is_some(o) /\ unwrap(o) = v

check_mint_authority(mint, mint_authority) ==
    IF contains(mint.mint_authority, mint_authority)
    THEN Ok(0)
    ELSE Err("InvalidAccountData")

check_freeze_authority(mint) ==
    IF ~is_some(mint.freeze_authority)
    THEN Ok(0)
    ELSE Err("InvalidAccountData")

check_mint_empty(mint) ==
    IF mint.supply = 0
    THEN Ok(0)
    ELSE Err("InvalidArgument")

check_stake_amount_and_validator_amount_first(stake_state, expected_stake_amount, validator_vote_pubkey) ==
    IF is_some(stake_state)
    THEN LET delegation == unwrap(stake_state)
         IN  IF delegation.stake # expected_stake_amount
             THEN Err("StakeAccountNotUpdatedYet")
             ELSE IF delegation.voter_pubkey # validator_vote_pubkey
                  THEN Err("InvalidInstructionData")
                  ELSE Ok(0)
    ELSE Err("StakeNotDelegated")

check_stake_amount_and_validator(stake_state, expected_stake_amount, validator_vote_pubkey) ==
    IF is_some(stake_state)
    THEN LET delegation == unwrap(stake_state)
         IN  IF delegation.voter_pubkey # validator_vote_pubkey
             THEN Err("InvalidInstructionData")
             ELSE IF delegation.stake # expected_stake_amount
                  THEN Err("StakeAccountNotUpdatedYet")
                  ELSE Ok(0)
    ELSE Err("StakeNotDelegated")

\* --------------------------------------------------------------- calc.rs
\* (crate::calc is imported by marinade.rs; its text is not part of the
\* sources, so the two conversions follow the written specification.)

\* floor(value * total_shares / total_value), 1:1 while the pool is unpriced.
shares_from_value(value, total_value, total_shares) ==
    IF total_value = 0 \/ total_shares = 0
    THEN Ok(value)
    ELSE LET q == (value * total_shares) \div total_value
         IN  IF q <= U64_MAX THEN Ok(q) ELSE Err("CalculationFailure")

\* floor(shares * total_value / total_shares); no price without a supply.
value_from_shares(shares, total_value, total_shares) ==
    IF total_shares = 0
    THEN Err("CalculationFailure")
    ELSE LET q == (shares * total_value) \div total_shares
         IN  IF q <= U64_MAX THEN Ok(q) ELSE Err("CalculationFailure")

\* ----------------------------------------------------------- marinade.rs

\* &mut self, but only reads self.msol_mint.
check_msol_mint(self, msol_mint) ==
    Outcome(self, check_address(msol_mint, self.msol_mint))

check_treasury_msol_account_wrong_mint_fails(self, treasury_msol_account) ==
    LET addr == check_address(treasury_msol_account.key,
                              self.treasury_msol_account)
    IN  IF addr.tag # "Ok" THEN addr
        ELSE IF treasury_msol_account.owner # "spl_token" THEN Ok(FALSE)
        ELSE IF is_some(treasury_msol_account.data)
             THEN IF unwrap(treasury_msol_account.data).mint = self.msol_mint
                  THEN Ok(TRUE)
                  ELSE Err("InvalidAccountData")
             ELSE Ok(FALSE)

check_treasury_msol_account(self, treasury_msol_account) ==
    LET addr == check_address(treasury_msol_account.key,
                              self.treasury_msol_account)
    IN  IF addr.tag # "Ok" THEN addr
        ELSE IF treasury_msol_account.owner # "spl_token" THEN Ok(FALSE)
        ELSE IF is_some(treasury_msol_account.data)
             THEN IF unwrap(treasury_msol_account.data).mint = self.msol_mint
                  THEN Ok(TRUE)
                  ELSE Ok(FALSE)
             ELSE Ok(FALSE)

total_cooling_down(self) ==
    LET sum == checked_add(self.delayed_unstake_cooling_down,
                           self.emergency_cooling_down)
    IN  IF is_some(sum) THEN Ok(unwrap(sum)) ELSE Panic

total_lamports_under_control_no_reserve(self) ==
    LET cooling == total_cooling_down(self)
    IN  IF cooling.tag = "Panic" THEN Panic
        ELSE LET stake == checked_add(self.total_active_balance, cooling.val)
             IN  IF is_some(stake) THEN Ok(unwrap(stake)) ELSE Panic

total_lamports_under_control(self) ==
    LET cooling == total_cooling_down(self)
    IN  IF cooling.tag = "Panic" THEN Panic
        ELSE LET stake == checked_add(self.total_active_balance, cooling.val)
             IN  IF ~is_some(stake) THEN Panic
                 ELSE LET total == checked_add(unwrap(stake),
                                               self.available_reserve_balance)
                      IN  IF is_some(total) THEN Ok(unwrap(total)) ELSE Panic

check_staking_cap_no_overflow_arm(self, transfering_lamports) ==
    LET total == total_lamports_under_control(self)
    IN  IF total.tag = "Panic" THEN Panic
        ELSE IF total.val + transfering_lamports > self.staking_sol_cap
             THEN Custom(3782)
             ELSE Ok(0)

check_staking_cap(self, transfering_lamports) ==
    LET total == total_lamports_under_control(self)
    IN  IF total.tag = "Panic" THEN Panic
        ELSE LET result_amount == checked_add(total.val, transfering_lamports)
             IN  IF ~is_some(result_amount) THEN Err("InvalidArgument")
                 ELSE IF unwrap(result_amount) > self.staking_sol_cap
                      THEN Custom(3782)
                      ELSE Ok(0)

total_virtual_staked_lamports_unclamped(self) ==
    LET total == total_lamports_under_control(self)
    IN  IF total.tag = "Panic" THEN Panic
        ELSE Ok(wrapping_sub(total.val, self.circulating_ticket_balance))

total_virtual_staked_lamports(self) ==
    LET total == total_lamports_under_control(self)
    IN  IF total.tag = "Panic" THEN Panic
        ELSE Ok(saturating_sub(total.val, self.circulating_ticket_balance))

calc_msol_from_lamports(self, stake_lamports) ==
    LET total == total_virtual_staked_lamports(self)
    IN  IF total.tag = "Panic" THEN Panic
        ELSE shares_from_value(stake_lamports, total.val, self.msol_supply)

calc_lamports_from_msol_amount_ignoring_tickets(self, msol_amount) ==
    LET total == total_lamports_under_control(self)
    IN  IF total.tag = "Panic" THEN Panic
        ELSE value_from_shares(msol_amount, total.val, self.msol_supply)

calc_lamports_from_msol_amount(self, msol_amount) ==
    LET total == total_virtual_staked_lamports(self)
    IN  IF total.tag = "Panic" THEN Panic
        ELSE value_from_shares(msol_amount, total.val, self.msol_supply)

stake_delta_signed_reserve(self, reserve_balance) ==
    LET raw == (reserve_balance - self.rent_exempt_for_token_acc)
               + self.delayed_unstake_cooling_down
               - self.circulating_ticket_balance
    IN  IF raw >= 0 THEN raw
        ELSE LET with_emergency == raw + self.emergency_cooling_down
             IN  Min(with_emergency, 0)

stake_delta_no_clamp(self, reserve_balance) ==
    LET raw == saturating_sub(reserve_balance, self.rent_exempt_for_token_acc)
               + self.delayed_unstake_cooling_down
               - self.circulating_ticket_balance
    IN  IF raw >= 0 THEN raw ELSE raw + self.emergency_cooling_down

stake_delta_clamp_up(self, reserve_balance) ==
    LET raw == saturating_sub(reserve_balance, self.rent_exempt_for_token_acc)
               + self.delayed_unstake_cooling_down
               - self.circulating_ticket_balance
    IN  IF raw >= 0 THEN raw
        ELSE LET with_emergency == raw + self.emergency_cooling_down
             IN  Max(with_emergency, 0)

stake_delta(self, reserve_balance) ==
    LET raw == saturating_sub(reserve_balance, self.rent_exempt_for_token_acc)
               + self.delayed_unstake_cooling_down
               - self.circulating_ticket_balance
    IN  IF raw >= 0 THEN raw
        ELSE LET with_emergency == raw + self.emergency_cooling_down
             IN  Min(with_emergency, 0)

on_transfer_to_reserve_into_supply(self, amount) ==
    LET sum == checked_add(self.msol_supply, amount)
    IN  IF is_some(sum)
        THEN Outcome([self EXCEPT !.msol_supply = unwrap(sum)], Ok(0))
        ELSE Outcome(self, Panic)

on_transfer_to_reserve(self, amount) ==
    LET sum == checked_add(self.available_reserve_balance, amount)
    IN  IF is_some(sum)
        THEN Outcome([self EXCEPT !.available_reserve_balance = unwrap(sum)], Ok(0))
        ELSE Outcome(self, Panic)

on_transfer_from_reserve_saturating(self, amount) ==
    Outcome([self EXCEPT !.available_reserve_balance = saturating_sub(@, amount)],
            Ok(0))

on_transfer_from_reserve_wrapping(self, amount) ==
    Outcome([self EXCEPT !.available_reserve_balance = wrapping_sub(@, amount)],
            Ok(0))

on_transfer_from_reserve(self, amount) ==
    LET diff == checked_sub(self.available_reserve_balance, amount)
    IN  IF is_some(diff)
        THEN Outcome([self EXCEPT !.available_reserve_balance = unwrap(diff)], Ok(0))
        ELSE Outcome(self, Err("CalculationFailure"))

on_msol_mint_wrapping(self, amount) ==
    Outcome([self EXCEPT !.msol_supply = wrapping_add(@, amount)], Ok(0))

on_msol_mint(self, amount) ==
    LET sum == checked_add(self.msol_supply, amount)
    IN  IF is_some(sum)
        THEN Outcome([self EXCEPT !.msol_supply = unwrap(sum)], Ok(0))
        ELSE Outcome(self, Panic)

on_msol_burn_saturating(self, amount) ==
    Outcome([self EXCEPT !.msol_supply = saturating_sub(@, amount)], Ok(0))

on_msol_burn(self, amount) ==
    LET diff == checked_sub(self.msol_supply, amount)
    IN  IF is_some(diff)
        THEN Outcome([self EXCEPT !.msol_supply = unwrap(diff)], Ok(0))
        ELSE Outcome(self, Err("CalculationFailure"))

\* ----------------------------------------------------------------- state

\* The record as created at protocol initialization: every counter zero.
Genesis ==
    [msol_mint                    |-> "msol_mint",
     treasury_msol_account        |-> "treasury_msol_account",
     rent_exempt_for_token_acc    |-> 0,
     total_active_balance         |-> 0,
     delayed_unstake_cooling_down |-> 0,
     emergency_cooling_down       |-> 0,
     available_reserve_balance    |-> 0,
     msol_supply                  |-> 0,
     circulating_ticket_balance   |-> 0,
     staking_sol_cap              |-> 0]

\* Records as they may be loaded from the chain.
Loaded ==
    { [Genesis EXCEPT !.rent_exempt_for_token_acc    = rent,
                      !.total_active_balance         = active,
                      !.delayed_unstake_cooling_down = delayed,
                      !.emergency_cooling_down       = emergency,
                      !.circulating_ticket_balance   = tickets,
                      !.staking_sol_cap              = cap] :
        rent \in RentValues, active \in ActiveValues, delayed \in DelayedValues,
        emergency \in EmergencyValues, tickets \in TicketValues,
        cap \in CapValues }

Call(op, arg, res) == [op |-> op, arg |-> arg, tag |-> res.tag, val |-> res.val]

NoCall == Call("none", 0, Ok(0))

InitGenesis ==
    /\ marinade = Genesis
    /\ ret = NoCall

Init ==
    /\ marinade \in Loaded \cup {Genesis}
    /\ ret = NoCall

\* --------------------------------------------------------------- actions

\* A getter or guard taking &self: the ledger is left alone.
CheckMsolMint ==
    \E msol_mint \in Pubkeys :
        LET r == check_msol_mint(marinade, msol_mint)
        IN  /\ marinade' = r.self
            /\ ret' = Call("check_msol_mint", msol_mint, r.res)

CheckTreasuryMsolAccount ==
    \E treasury_msol_account \in AccountInfos :
        /\ ret' = Call("check_treasury_msol_account", treasury_msol_account,
                       check_treasury_msol_account(marinade,
                                                   treasury_msol_account))
        /\ UNCHANGED marinade

TotalCoolingDown ==
    /\ ret' = Call("total_cooling_down", 0, total_cooling_down(marinade))
    /\ UNCHANGED marinade

TotalLamportsUnderControl ==
    /\ ret' = Call("total_lamports_under_control", 0,
                   total_lamports_under_control(marinade))
    /\ UNCHANGED marinade

CheckStakingCap ==
    \E transfering_lamports \in Amounts :
        /\ ret' = Call("check_staking_cap", transfering_lamports,
                       check_staking_cap(marinade, transfering_lamports))
        /\ UNCHANGED marinade

TotalVirtualStakedLamports ==
    /\ ret' = Call("total_virtual_staked_lamports", 0,
                   total_virtual_staked_lamports(marinade))
    /\ UNCHANGED marinade

CalcMsolFromLamports ==
    \E stake_lamports \in Amounts :
        /\ ret' = Call("calc_msol_from_lamports", stake_lamports,
                       calc_msol_from_lamports(marinade, stake_lamports))
        /\ UNCHANGED marinade

CalcLamportsFromMsolAmount ==
    \E msol_amount \in Amounts :
        /\ ret' = Call("calc_lamports_from_msol_amount", msol_amount,
                       calc_lamports_from_msol_amount(marinade, msol_amount))
        /\ UNCHANGED marinade

\* The free functions of checks.rs: they are handed no ledger.
CheckMintAuthority ==
    \E mint \in Mints, mint_authority \in Authorities :
        /\ ret' = Call("check_mint_authority", <<mint, mint_authority>>,
                       check_mint_authority(mint, mint_authority))
        /\ UNCHANGED marinade

CheckFreezeAuthority ==
    \E mint \in Mints :
        /\ ret' = Call("check_freeze_authority", <<mint>>,
                       check_freeze_authority(mint))
        /\ UNCHANGED marinade

CheckMintEmpty ==
    \E mint \in Mints :
        /\ ret' = Call("check_mint_empty", <<mint>>, check_mint_empty(mint))
        /\ UNCHANGED marinade

CheckStakeAmountAndValidator ==
    \E stake_state \in StakeStates, expected_stake_amount \in StakeAmounts,
       validator_vote_pubkey \in Validators :
        /\ ret' = Call("check_stake_amount_and_validator",
                       <<stake_state, expected_stake_amount,
                         validator_vote_pubkey>>,
                       check_stake_amount_and_validator(
                           stake_state, expected_stake_amount,
                           validator_vote_pubkey))
        /\ UNCHANGED marinade

StakeDelta ==
    \E reserve_balance \in ReserveBalances :
        /\ ret' = Call("stake_delta", reserve_balance,
                       Ok(stake_delta(marinade, reserve_balance)))
        /\ UNCHANGED marinade

OnTransferToReserve ==
    \E amount \in Amounts :
        LET r == on_transfer_to_reserve(marinade, amount)
        IN  /\ marinade' = r.self
            /\ ret' = Call("on_transfer_to_reserve", amount, r.res)

OnTransferFromReserve ==
    \E amount \in Amounts :
        LET r == on_transfer_from_reserve(marinade, amount)
        IN  /\ marinade' = r.self
            /\ ret' = Call("on_transfer_from_reserve", amount, r.res)

OnMsolMint ==
    \E amount \in Amounts :
        LET r == on_msol_mint(marinade, amount)
        IN  /\ marinade' = r.self
            /\ ret' = Call("on_msol_mint", amount, r.res)

OnMsolBurn ==
    \E amount \in Amounts :
        LET r == on_msol_burn(marinade, amount)
        IN  /\ marinade' = r.self
            /\ ret' = Call("on_msol_burn", amount, r.res)

Next ==
    \/ CheckMsolMint
    \/ CheckTreasuryMsolAccount
    \/ TotalCoolingDown
    \/ TotalLamportsUnderControl
    \/ CheckStakingCap
    \/ TotalVirtualStakedLamports
    \/ CalcMsolFromLamports
    \/ CalcLamportsFromMsolAmount
    \/ StakeDelta
    \/ CheckMintAuthority
    \/ CheckFreezeAuthority
    \/ CheckMintEmpty
    \/ CheckStakeAmountAndValidator
    \/ OnTransferToReserve
    \/ OnTransferFromReserve
    \/ OnMsolMint
    \/ OnMsolBurn

\* Any record the chain may hold, then any sequence of calls.
Spec == Init /\ [][Next]_vars

\* The zeroed record of protocol initialization, then any sequence of calls.
SpecGenesis == InitGenesis /\ [][Next]_vars

\* ---------------------------------------------------------------- claims

\* The mathematical sum of the four counters under control.
SumOfCounters(m) ==
    m.total_active_balance + m.delayed_unstake_cooling_down
    + m.emergency_cooling_down + m.available_reserve_balance

\* The delta without the emergency value, the reserve term floored at zero.
RawDelta(m, reserve_balance) ==
    Max(0, reserve_balance - m.rent_exempt_for_token_acc)
    + m.delayed_unstake_cooling_down - m.circulating_ticket_balance

\* The delta without the emergency value, the reserve term a signed difference.
SignedRawDelta(m, reserve_balance) ==
    (reserve_balance - m.rent_exempt_for_token_acc)
    + m.delayed_unstake_cooling_down - m.circulating_ticket_balance

\* The two-branch policy applied to a raw delta.
TwoBranch(raw, emergency) ==
    IF raw >= 0 THEN raw ELSE Min(0, raw + emergency)

\* The two worked cases of stake_delta: reserve = rent, delayed = 100 and
\* (tickets = 50, emergency = 0) gives 50, (tickets = 200, emergency = 30)
\* gives -70.
WorkedCases ==
    /\ ( /\ ret.arg = marinade.rent_exempt_for_token_acc
         /\ marinade.delayed_unstake_cooling_down = 100
         /\ marinade.circulating_ticket_balance = 50
         /\ marinade.emergency_cooling_down = 0 ) => ret.val = 50
    /\ ( /\ ret.arg = marinade.rent_exempt_for_token_acc
         /\ marinade.delayed_unstake_cooling_down = 100
         /\ marinade.circulating_ticket_balance = 200
         /\ marinade.emergency_cooling_down = 30 ) => ret.val = -70

\* C1 as stated: for every ledger and every reserve_balance stake_delta
\* returns the two-branch result of raw = (reserve_balance - rent) + delayed
\* - tickets, the reserve term being a signed difference.
C1_StakeDeltaSignedReserve ==
    ret.op = "stake_delta" =>
        /\ ret.val = TwoBranch(SignedRawDelta(marinade, ret.arg),
                               marinade.emergency_cooling_down)
        /\ WorkedCases

\* C1 as amended: stake_delta returns the two-branch result of
\* raw = max(0, reserve_balance - rent) + delayed - tickets: raw when
\* raw >= 0, min(0, raw + emergency) otherwise; the two worked cases give 50
\* and -70.
C1_StakeDeltaFlooredReserve ==
    ret.op = "stake_delta" =>
        /\ ret.val = TwoBranch(RawDelta(marinade, ret.arg),
                               marinade.emergency_cooling_down)
        /\ WorkedCases

\* stake_delta was called on the second worked case and returned -70.
C1_Witness ==
    /\ ret.op = "stake_delta"
    /\ ret.arg = marinade.rent_exempt_for_token_acc
    /\ marinade.delayed_unstake_cooling_down = 100
    /\ marinade.circulating_ticket_balance = 200
    /\ marinade.emergency_cooling_down = 30
    /\ ret.val = -70

\* C2: in every state reachable from the zeroed ledger by the four mutators
\* (successful or failed), total_lamports_under_control() succeeds and equals
\* total_active_balance + delayed_unstake_cooling_down +
\* emergency_cooling_down + available_reserve_balance.
C2_TotalIsSumOfCounters ==
    /\ total_lamports_under_control(marinade) = Ok(SumOfCounters(marinade))
    /\ ret.op = "total_lamports_under_control" =>
           ret.tag = "Ok" /\ ret.val = SumOfCounters(marinade)

\* The total was read after transfers had made it non-zero.
C2_Witness ==
    /\ ret.op = "total_lamports_under_control"
    /\ ret.tag = "Ok"
    /\ ret.val > 0

\* C3: on_msol_burn(amount) with amount > msol_supply returns
\* CalculationFailure and leaves the whole ledger unchanged; with
\* amount <= msol_supply it succeeds and decreases msol_supply by exactly
\* amount, every other field unchanged.
C3_BurnCheckedSub ==
    [][ret'.op = "on_msol_burn" =>
          IF ret'.arg > marinade.msol_supply
          THEN ret'.tag = "CalculationFailure" /\ marinade' = marinade
          ELSE /\ ret'.tag = "Ok"
               /\ marinade' = [marinade EXCEPT !.msol_supply = @ - ret'.arg]]_vars

\* A burn larger than a non-zero supply was rejected.
C3_Witness ==
    /\ ret.op = "on_msol_burn"
    /\ ret.tag = "CalculationFailure"
    /\ ret.arg > marinade.msol_supply
    /\ marinade.msol_supply > 0

\* C4: on_transfer_from_reserve(amount) with amount >
\* available_reserve_balance returns the recoverable CalculationFailure (no
\* panic) and leaves the whole ledger unchanged; with amount <=
\* available_reserve_balance it succeeds and decreases
\* available_reserve_balance by exactly amount.
C4_FromReserveCheckedSub ==
    [][ret'.op = "on_transfer_from_reserve" =>
          IF ret'.arg > marinade.available_reserve_balance
          THEN ret'.tag = "CalculationFailure" /\ marinade' = marinade
          ELSE /\ ret'.tag = "Ok"
               /\ marinade' = [marinade EXCEPT
                                 !.available_reserve_balance = @ - ret'.arg]]_vars

\* A transfer larger than a non-zero reserve was rejected.
C4_Witness ==
    /\ ret.op = "on_transfer_from_reserve"
    /\ ret.tag = "CalculationFailure"
    /\ ret.arg > marinade.available_reserve_balance
    /\ marinade.available_reserve_balance > 0

\* C5 as stated: whenever total_lamports_under_control() has a value,
\* check_staking_cap(incoming) fails with Custom(3782) if the mathematical
\* sum total + incoming exceeds staking_sol_cap and succeeds otherwise.
C5_CapErrorForEverySum ==
    ( /\ ret.op = "check_staking_cap"
      /\ total_lamports_under_control(marinade).tag = "Ok" ) =>
        IF SumOfCounters(marinade) + ret.arg > marinade.staking_sol_cap
        THEN ret.tag = "Custom" /\ ret.val = 3782
        ELSE ret.tag = "Ok"

\* C5 as amended: check_staking_cap(incoming) never modifies the ledger; it
\* succeeds when total + incoming <= staking_sol_cap, fails with
\* Custom(3782) when total + incoming fits in u64 and exceeds the cap, fails
\* with InvalidArgument when total + incoming overflows u64, and panics when
\* the total itself overflows u64.
C5_CapErrorUnlessOverflow ==
    [][ret'.op = "check_staking_cap" =>
          /\ marinade' = marinade
          /\ LET total == SumOfCounters(marinade)
                 sum == total + ret'.arg
             IN  CASE total > U64_MAX -> ret'.tag = "Panic"
                   [] total <= U64_MAX /\ sum > U64_MAX ->
                          ret'.tag = "InvalidArgument"
                   [] sum <= U64_MAX /\ sum > marinade.staking_sol_cap ->
                          ret'.tag = "Custom" /\ ret'.val = 3782
                   [] OTHER -> ret'.tag = "Ok"]_vars

\* The guard was called with an incoming value that overflows the sum.
C5_Witness ==
    /\ ret.op = "check_staking_cap"
    /\ ret.tag = "InvalidArgument"
    /\ SumOfCounters(marinade) <= U64_MAX
    /\ SumOfCounters(marinade) + ret.arg > U64_MAX

\* C6 as stated: total_virtual_staked_lamports() never fails and returns
\* max(0, total - circulating_ticket_balance) for every combination of u64
\* counter values.
C6_VirtualNeverFails ==
    ret.op = "total_virtual_staked_lamports" =>
        /\ ret.tag = "Ok"
        /\ ret.val = Max(0, SumOfCounters(marinade)
                            - marinade.circulating_ticket_balance)

\* C6 as amended: total_virtual_staked_lamports() returns
\* max(0, total - circulating_ticket_balance) whenever the sum of the four
\* counters fits in u64, and panics when that sum overflows u64.
C6_VirtualClampedUnlessOverflow ==
    ret.op = "total_virtual_staked_lamports" =>
        IF SumOfCounters(marinade) <= U64_MAX
        THEN /\ ret.tag = "Ok"
             /\ ret.val = Max(0, SumOfCounters(marinade)
                                 - marinade.circulating_ticket_balance)
        ELSE ret.tag = "Panic"

\* The getter was called with tickets exceeding the total: the floor acted.
C6_Witness ==
    /\ ret.op = "total_virtual_staked_lamports"
    /\ ret.tag = "Ok"
    /\ ret.val = 0
    /\ SumOfCounters(marinade) < marinade.circulating_ticket_balance

\* C7: whenever the emergency-free raw delta is negative stake_delta returns
\* a value <= 0, whatever emergency_cooling_down is; a positive result is
\* the same for every other value of emergency_cooling_down.
C7_EmergencyNeverStaked ==
    ret.op = "stake_delta" =>
        /\ RawDelta(marinade, ret.arg) < 0 => ret.val <= 0
        /\ \A e \in 0..U64_MAX :
               LET other == [marinade EXCEPT !.emergency_cooling_down = e]
               IN  /\ RawDelta(marinade, ret.arg) < 0 =>
                          stake_delta(other, ret.arg) <= 0
                   /\ ret.val > 0 => stake_delta(other, ret.arg) = ret.val

\* stake_delta was called where the emergency value exceeds the shortfall:
\* the result was clamped to zero.
C7_Witness ==
    /\ ret.op = "stake_delta"
    /\ RawDelta(marinade, ret.arg) < 0
    /\ RawDelta(marinade, ret.arg) + marinade.emergency_cooling_down > 0
    /\ ret.val = 0

\* C8: available_reserve_balance increases only in an on_transfer_to_reserve
\* step and decreases only in a successful on_transfer_from_reserve step;
\* every other call leaves it unchanged, and it stays within u64.
C8_ReserveFrame ==
    [][/\ marinade'.available_reserve_balance > marinade.available_reserve_balance
            => ret'.op = "on_transfer_to_reserve"
       /\ marinade'.available_reserve_balance < marinade.available_reserve_balance
            => ret'.op = "on_transfer_from_reserve" /\ ret'.tag = "Ok"
       /\ ret'.op \notin {"on_transfer_to_reserve", "on_transfer_from_reserve"}
            => marinade'.available_reserve_balance
                   = marinade.available_reserve_balance
       /\ marinade'.available_reserve_balance \in 0..U64_MAX]_vars

\* A successful transfer from the reserve took a non-zero amount.
C8_Witness ==
    /\ ret.op = "on_transfer_from_reserve"
    /\ ret.tag = "Ok"
    /\ ret.arg > 0

\* C9: msol_supply increases only in an on_msol_mint step and decreases only
\* in a successful on_msol_burn step; the reserve mutators, the guards
\* (check_msol_mint included), the conversions and the getters leave it
\* unchanged.
C9_SupplyFrame ==
    [][/\ marinade'.msol_supply > marinade.msol_supply
            => ret'.op = "on_msol_mint"
       /\ marinade'.msol_supply < marinade.msol_supply
            => ret'.op = "on_msol_burn" /\ ret'.tag = "Ok"
       /\ ret'.op \notin {"on_msol_mint", "on_msol_burn"}
            => marinade'.msol_supply = marinade.msol_supply]_vars

\* check_msol_mint was called on a ledger with a non-zero supply.
C9_Witness ==
    /\ ret.op = "check_msol_mint"
    /\ marinade.msol_supply > 0

\* C10: on_msol_mint(amount) and on_transfer_to_reserve(amount) set their
\* counter to exactly old + amount when that fits in u64 and otherwise panic
\* with the ledger unchanged; the counter never becomes (old + amount) mod
\* 2^64 after an overflow.
C10_IncrementsNeverWrap ==
    [][/\ ret'.op = "on_msol_mint" =>
            IF marinade.msol_supply + ret'.arg <= U64_MAX
            THEN /\ ret'.tag = "Ok"
                 /\ marinade' = [marinade EXCEPT !.msol_supply = @ + ret'.arg]
            ELSE /\ ret'.tag = "Panic"
                 /\ marinade' = marinade
                 /\ marinade'.msol_supply
                        # (marinade.msol_supply + ret'.arg) % (U64_MAX + 1)
       /\ ret'.op = "on_transfer_to_reserve" =>
            IF marinade.available_reserve_balance + ret'.arg <= U64_MAX
            THEN /\ ret'.tag = "Ok"
                 /\ marinade' = [marinade EXCEPT
                                   !.available_reserve_balance = @ + ret'.arg]
            ELSE /\ ret'.tag = "Panic"
                 /\ marinade' = marinade
                 /\ marinade'.available_reserve_balance
                        # (marinade.available_reserve_balance + ret'.arg)
                              % (U64_MAX + 1)]_vars

\* A mint that would overflow a non-zero supply panicked.
C10_Witness ==
    /\ ret.op = "on_msol_mint"
    /\ ret.tag = "Panic"
    /\ marinade.msol_supply > 0

\* C11: check_stake_amount_and_validator(snapshot, expected_value,
\* expected_validator) returns StakeNotDelegated when the snapshot has no
\* delegation, InvalidInstructionData when it is delegated to another
\* validator (whatever the amount), StakeAccountNotUpdatedYet when the
\* validator matches and the amount differs, and Ok exactly when both match;
\* the ledger is unchanged.
C11_StakeGuardVerdicts ==
    [][ret'.op = "check_stake_amount_and_validator" =>
          /\ marinade' = marinade
          /\ LET snapshot == ret'.arg[1]
                 expected_value == ret'.arg[2]
                 expected_validator == ret'.arg[3]
             IN  /\ Len(snapshot) = 0 => ret'.tag = "StakeNotDelegated"
                 /\ ( /\ Len(snapshot) = 1
                      /\ snapshot[1].voter_pubkey # expected_validator )
                        => ret'.tag = "InvalidInstructionData"
                 /\ ( /\ Len(snapshot) = 1
                      /\ snapshot[1].voter_pubkey = expected_validator
                      /\ snapshot[1].stake # expected_value )
                        => ret'.tag = "StakeAccountNotUpdatedYet"
                 /\ ret'.tag = "Ok" <=>
                        ( /\ Len(snapshot) = 1
                          /\ snapshot[1].voter_pubkey = expected_validator
                          /\ snapshot[1].stake = expected_value )]_vars

\* The guard met a snapshot with both the validator and the amount wrong and
\* reported the validator.
C11_Witness ==
    /\ ret.op = "check_stake_amount_and_validator"
    /\ Len(ret.arg[1]) = 1
    /\ ret.arg[1][1].voter_pubkey # ret.arg[3]
    /\ ret.arg[1][1].stake # ret.arg[2]
    /\ ret.tag = "InvalidInstructionData"

\* Whether an account matches what the ledger expects of the treasury
\* account on every count: address, owner program, parseable, mint.
TreasuryMatches(m, account) ==
    /\ account.key = m.treasury_msol_account
    /\ account.owner = "spl_token"
    /\ Len(account.data) = 1
    /\ account.data[1].mint = m.msol_mint

\* C12 as stated: check_treasury_msol_account never fails with an error; it
\* returns false for an account that does not match (different address, not
\* owned by the token program, unparseable, or another mint) and true only
\* when the account matches on all of these.
C12_TreasurySoftOnEveryMismatch ==
    ret.op = "check_treasury_msol_account" =>
        /\ ret.tag = "Ok"
        /\ ret.val = TreasuryMatches(marinade, ret.arg)

\* C12 as amended: for an account at the address treasury_msol_account the
\* check is soft: it returns false when the account is not owned by the
\* token program, does not parse as a token account or holds another mint,
\* and true only when all of these match; for an account at any other
\* address it fails with InvalidArgument.
C12_TreasurySoftAtExpectedAddress ==
    ret.op = "check_treasury_msol_account" =>
        IF ret.arg.key = marinade.treasury_msol_account
        THEN /\ ret.tag = "Ok"
             /\ ret.val = TreasuryMatches(marinade, ret.arg)
        ELSE ret.tag = "InvalidArgument"

\* The check met the expected address holding a token account of another
\* mint and answered false.
C12_Witness ==
    /\ ret.op = "check_treasury_msol_account"
    /\ ret.arg.key = marinade.treasury_msol_account
    /\ ret.arg.owner = "spl_token"
    /\ Len(ret.arg.data) = 1
    /\ ret.arg.data[1].mint # marinade.msol_mint
    /\ ret.tag = "Ok"
    /\ ret.val = FALSE

\* C13: each of the three token-mint guards either succeeds or fails with
\* InvalidAccountData: check_mint_authority fails iff the mint's authority
\* is absent or differs from the expected one, check_freeze_authority fails
\* iff a freeze authority is present, check_mint_empty fails iff the supply
\* is non-zero.
C13_MintGuardsInvalidAccountData ==
    /\ ret.op = "check_mint_authority" =>
          IF Len(ret.arg[1].mint_authority) = 0
             \/ ret.arg[1].mint_authority # <<ret.arg[2]>>
          THEN ret.tag = "InvalidAccountData"
          ELSE ret.tag = "Ok"
    /\ ret.op = "check_freeze_authority" =>
          IF Len(ret.arg[1].freeze_authority) = 1
          THEN ret.tag = "InvalidAccountData"
          ELSE ret.tag = "Ok"
    /\ ret.op = "check_mint_empty" =>
          IF ret.arg[1].supply # 0
          THEN ret.tag = "InvalidAccountData"
          ELSE ret.tag = "Ok"

\* Values, totals and supplies the conversions are tried on.
ConvValues == {0, 1, 3, 100, U64_MAX}

\* Lamport amounts converted to mSOL and back on the current ledger.
RoundTripValues == {0, 1, 7, 100, 151, U64_MAX}

C15_ReserveShortfallNotCounted ==
    ret.op = "stake_delta" =>
        /\ ret.arg <= marinade.rent_exempt_for_token_acc =>
               ret.val = stake_delta(marinade,
                                     marinade.rent_exempt_for_token_acc)
        /\ ret.val >= - marinade.circulating_ticket_balance
        /\ \A lower \in 0..U64_MAX :
               lower <= ret.arg => stake_delta(marinade, lower) <= ret.val

\* stake_delta was called with a reserve below the rent-exempt minimum and
\* asked for exactly the tickets' value to be unstaked.
C15_Witness ==
    /\ ret.op = "stake_delta"
    /\ ret.arg < marinade.rent_exempt_for_token_acc
    /\ marinade.circulating_ticket_balance > 0
    /\ ret.val = - marinade.circulating_ticket_balance

====
